---- MODULE Spec2Model ----
(***************************************************************************)
(* The drowsiness state tracker of awake-watch-tech, in its two versions:  *)
(*   - the browser-side EyeDetector        (src/src/lib/eyeDetector.ts)    *)
(*   - the server-side DrowsinessDetector  (backend/detector.py, listed in *)
(*     src/unnamed/part_000)                                               *)
(*                                                                         *)
(* Numbers are fixed point:                                                *)
(*   - an eye-aspect-ratio (raw or smoothed) is an integer number of       *)
(*     thousandths (0.30 is 300, the client's initial 0.03 is 30);         *)
(*   - a threshold is kept in fortieths of a thousandth, so that           *)
(*     0.75 * median and 0.85 * median are exact also when the median is   *)
(*     the mean of two samples (0.015 is 600, 0.02 is 800);                *)
(*   - a time is an integer number of twentieths of a second (1.2 s is     *)
(*     24, 2.5 s is 50, 0.15 s is 3);                                      *)
(*   - a smoothing factor is an integer number of tenths (0.7 is 7).       *)
(* The exponential moving average rounds down to a thousandth.             *)
(*                                                                         *)
(* One behaviour follows one tracker: impl says which of the two versions  *)
(* the session runs; the other one stays as constructed.                   *)
(***************************************************************************)
EXTENDS Integers, Sequences, FiniteSets, TLC

VARIABLES
    impl,       \* "client" or "server": the version this session runs
    client,     \* the fields of the EyeDetector object
    server,     \* the fields of the DrowsinessDetector object
    now,        \* the wall clock (Date.now()/1000, time.time()), in twentieths of a second
    clientRes,  \* what the last EyeDetector.processFrame call returned
    serverRes,  \* what the last DrowsinessDetector.process_frame call returned
    lastOp,     \* the last operation called on the tracker
    hist,       \* history of the session: what the claims are stated about
    conns,      \* the WebSocket connections of the server (backend/main.py)
    page        \* the refs and sockets of the WebSocket Detect page

vars == <<impl, client, server, now, clientRes, serverRes, lastOp, hist, conns, page>>

---------------------------------------------------------------------------
(* Bounds of the model *)

\* Detected frames fed to a tracker in one session of Spec.
MaxFrames == 8
\* Events of one session of Spec or SpecCal: a detected frame whose raw signal
\* differs from that of the previous detected frame, or a call of
\* startCalibration / reset_baseline / updateSettings / update_params.
MaxEvents == 2
\* Detected frames fed to a tracker in one session of SpecRun.
MaxRunFrames == 12
\* Events (changes of the raw signal) of one session of SpecRun.
MaxRunEvents == 3
\* Detected frames fed to a tracker in one session of SpecCal.
MaxCalFrames == 22
\* The wall clock stops advancing here.
MaxTime == 80
\* The server's baseline_frames constructor argument ranges over 1..MaxBaseline.
MaxBaseline == 2

\* Raw eye-aspect-ratios fed to the tracker (0.01: shut, 0.30: open).
Samples == {10, 300}
\* The server's smoothing_factor constructor argument: none, or the default 0.7.
SmoothingChoices == {0, 7}
\* Time elapsed between two processFrame calls.
TimeSteps == {0, 24, 26}
\* The first reading of the wall clock (any positive time).
StartTime == 1

---------------------------------------------------------------------------
(* Values *)

\* Python's None, for the server's optional numbers (all of them are >= 0).
None == -1
\* No face in the frame: results.faceLandmarks is empty.
NoFace == -1
\* A settings field that the caller left out (undefined / None).
Undefined == -1

Range(s) == {s[i] : i \in 1..Len(s)}

\* The k-th smallest entry of a non-empty sequence, 1 <= k <= Len(buf).
Kth(buf, k) ==
    CHOOSE x \in Range(buf) :
        /\ Cardinality({i \in 1..Len(buf) : buf[i] < x}) < k
        /\ Cardinality({i \in 1..Len(buf) : buf[i] <= x}) >= k

\* smoothingFactor * smoothed + (1 - smoothingFactor) * raw
Ema(factor, smoothed, raw) == (factor * smoothed + (10 - factor) * raw) \div 10

---------------------------------------------------------------------------
(* The client: EyeDetector *)

\* The fields of a new EyeDetector.
EyeDetectorNew ==
    [ faceLandmarker  |-> FALSE,   \* null until initialize() has run
      baseline        |-> <<>>,
      isCalibrating   |-> FALSE,
      TH_LOW          |-> 600,     \* 0.015
      TH_HIGH         |-> 800,     \* 0.02
      smoothedEye     |-> 30,      \* 0.03
      smoothingFactor |-> 7,       \* 0.7
      closedFrames    |-> 0,
      openFrames      |-> 0,
      FRAMES_REQUIRED |-> 5,
      eyeState        |-> "OPEN",
      closedStartTime |-> 0,
      refractoryUntil |-> 0,
      CLOSED_SECONDS  |-> 24,      \* 1.2
      REFRACTORY      |-> 50 ]     \* 2.5

\* The literal 20 of processFrame and getCalibrationProgress.
ClientBaselineFrames == 20

\* sorted[Math.floor(sorted.length / 2)]
ClientMedian(buf) == Kth(buf, (Len(buf) \div 2) + 1)

\* The result of a frame without a face: nothing is written.
ClientNoFaceResult(d) ==
    [ ret            |-> "state",
      detected       |-> FALSE,
      state          |-> d.eyeState,
      eye            |-> d.smoothedEye,
      TH_LOW         |-> d.TH_LOW,
      TH_HIGH        |-> d.TH_HIGH,
      baseline_ready |-> Len(d.baseline) >= ClientBaselineFrames,
      closed_for     |-> 0,
      alarm          |-> FALSE ]

\* "Smooth the signal"
ClientSmooth(d, rawEye) ==
    [d EXCEPT !.smoothedEye = Ema(d.smoothingFactor, d.smoothedEye, rawEye)]

\* ClientCalibrate with every frame pushed, calibrating or not.
ClientCalibrateAlways(d) ==
    LET pushed == Append(d.baseline, d.smoothedEye)
    IN  IF d.isCalibrating /\ Len(pushed) >= ClientBaselineFrames
        THEN [d EXCEPT !.baseline = pushed,
                       !.TH_LOW = 30 * ClientMedian(pushed),
                       !.TH_HIGH = 34 * ClientMedian(pushed),
                       !.isCalibrating = FALSE]
        ELSE [d EXCEPT !.baseline = pushed]

\* "Baseline calibration"
ClientCalibrate(d) ==
    IF d.isCalibrating
    THEN LET pushed == Append(d.baseline, d.smoothedEye)
         IN  IF Len(pushed) >= ClientBaselineFrames
             THEN [d EXCEPT !.baseline = pushed,
                            !.TH_LOW = 30 * ClientMedian(pushed),
                            !.TH_HIGH = 34 * ClientMedian(pushed),
                            !.isCalibrating = FALSE]
             ELSE [d EXCEPT !.baseline = pushed]
    ELSE d

\* ClientStateMachine with the streak counters cleared in the dead band.
ClientStateMachineClearing(d, t) ==
    IF 40 * d.smoothedEye < d.TH_LOW
    THEN LET c == [d EXCEPT !.closedFrames = d.closedFrames + 1, !.openFrames = 0]
         IN  IF c.closedFrames >= c.FRAMES_REQUIRED /\ c.eyeState = "OPEN"
             THEN [c EXCEPT !.eyeState = "CLOSED", !.closedStartTime = t]
             ELSE c
    ELSE IF 40 * d.smoothedEye > d.TH_HIGH
    THEN LET o == [d EXCEPT !.openFrames = d.openFrames + 1, !.closedFrames = 0]
         IN  IF o.openFrames >= o.FRAMES_REQUIRED /\ o.eyeState = "CLOSED"
             THEN [o EXCEPT !.eyeState = "OPEN", !.closedStartTime = 0]
             ELSE o
    ELSE [d EXCEPT !.closedFrames = 0, !.openFrames = 0]

\* "State machine"
ClientStateMachine(d, t) ==
    IF 40 * d.smoothedEye < d.TH_LOW
    THEN LET c == [d EXCEPT !.closedFrames = d.closedFrames + 1, !.openFrames = 0]
         IN  IF c.closedFrames >= c.FRAMES_REQUIRED /\ c.eyeState = "OPEN"
             THEN [c EXCEPT !.eyeState = "CLOSED", !.closedStartTime = t]
             ELSE c
    ELSE IF 40 * d.smoothedEye > d.TH_HIGH
    THEN LET o == [d EXCEPT !.openFrames = d.openFrames + 1, !.closedFrames = 0]
         IN  IF o.openFrames >= o.FRAMES_REQUIRED /\ o.eyeState = "CLOSED"
             THEN [o EXCEPT !.eyeState = "OPEN", !.closedStartTime = 0]
             ELSE o
    ELSE d

\* closedFor of the frame at time t
ClientClosedFor(d, t) ==
    IF d.eyeState = "CLOSED" /\ d.closedStartTime > 0 THEN t - d.closedStartTime ELSE 0

\* ClientAlarm firing once only.
ClientAlarmOnce(d, t) ==
    /\ d.eyeState = "CLOSED"
    /\ d.closedStartTime > 0
    /\ t - d.closedStartTime >= d.CLOSED_SECONDS
    /\ d.refractoryUntil = 0

\* Whether the frame at time t fires the alarm.
ClientAlarm(d, t) ==
    /\ d.eyeState = "CLOSED"
    /\ d.closedStartTime > 0
    /\ ClientClosedFor(d, t) >= d.CLOSED_SECONDS
    /\ t > d.refractoryUntil

\* The alarm part of processFrame and the result it returns.
ClientFinish(d, t) ==
    [ d |-> IF ClientAlarm(d, t) THEN [d EXCEPT !.refractoryUntil = t + d.REFRACTORY] ELSE d,
      r |-> [ ret            |-> "state",
              detected       |-> TRUE,
              state          |-> d.eyeState,
              eye            |-> d.smoothedEye,
              TH_LOW         |-> d.TH_LOW,
              TH_HIGH        |-> d.TH_HIGH,
              baseline_ready |-> Len(d.baseline) >= ClientBaselineFrames,
              closed_for     |-> ClientClosedFor(d, t),
              alarm          |-> ClientAlarm(d, t) ] ]

\* What processFrame returns before initialize() has run.
ClientNull ==
    [ ret |-> "null", detected |-> FALSE, state |-> "OPEN", eye |-> 0, TH_LOW |-> 0,
      TH_HIGH |-> 0, baseline_ready |-> FALSE, closed_for |-> 0, alarm |-> FALSE ]

\* ClientProcessFrame with the closed timer started again by a frame without a
\* face.
ClientProcessFrameStopping(d, rawEye, t) ==
    IF ~d.faceLandmarker THEN [d |-> d, r |-> ClientNull]
    ELSE IF rawEye = NoFace
    THEN LET e == IF d.eyeState = "CLOSED" THEN [d EXCEPT !.closedStartTime = t] ELSE d
         IN  [d |-> e, r |-> ClientNoFaceResult(e)]
    ELSE ClientFinish(ClientStateMachine(ClientCalibrate(ClientSmooth(d, rawEye)), t), t)

\* EyeDetector.processFrame: rawEye is the frame's mean EAR, or NoFace; t is
\* Date.now() / 1000. Gives the object's new fields d and the returned value r.
ClientProcessFrame(d, rawEye, t) ==
    IF ~d.faceLandmarker THEN [d |-> d, r |-> ClientNull]
    ELSE IF rawEye = NoFace THEN [d |-> d, r |-> ClientNoFaceResult(d)]
    ELSE ClientFinish(ClientStateMachine(ClientCalibrate(ClientSmooth(d, rawEye)), t), t)

\* ClientStartCalibration with the refractory timer cleared as well.
ClientStartCalibrationClearing(d) ==
    [d EXCEPT !.baseline = <<>>, !.isCalibrating = TRUE, !.refractoryUntil = 0]

\* EyeDetector.startCalibration
ClientStartCalibration(d) == [d EXCEPT !.baseline = <<>>, !.isCalibrating = TRUE]

\* EyeDetector.updateSettings
ClientUpdateSettings(d, settings) ==
    [d EXCEPT
        !.CLOSED_SECONDS =
            IF settings.closedSeconds # Undefined THEN settings.closedSeconds ELSE @,
        !.REFRACTORY =
            IF settings.refractory # Undefined THEN settings.refractory ELSE @,
        !.smoothingFactor =
            IF settings.smoothingFactor # Undefined THEN settings.smoothingFactor ELSE @]

---------------------------------------------------------------------------
(* The server: DrowsinessDetector *)

\* The fields of a new DrowsinessDetector(smoothing_factor = f, baseline_frames = n);
\* the other constructor arguments take their defaults.
DrowsinessDetectorNew(f, n) ==
    [ CLOSED_SECONDS         |-> 24,    \* closed_seconds = 1.2
      REFRACTORY             |-> 50,    \* refractory = 2.5
      SMOOTHING_FACTOR       |-> f,     \* smoothing_factor (0.7 by default)
      BASELINE_FRAMES        |-> n,     \* baseline_frames (60 by default)
      FRAMES_REQUIRED        |-> 5,     \* frames_required = 5
      baseline_buffer        |-> <<>>,
      TH_LOW                 |-> None,
      TH_HIGH                |-> None,
      smoothed_eye           |-> None,
      current_state          |-> "OPEN",
      closed_start           |-> None,
      last_alarm_time        |-> None,
      consecutive_detections |-> 0 ]

\* Python's "x or 0.0" for an optional number.
OrZero(x) == IF x = None THEN 0 ELSE x

\* np.median, doubled: the middle entry twice, or the sum of the two middle ones.
NpMedianTwice(buf) ==
    IF Len(buf) % 2 = 1
    THEN 2 * Kth(buf, (Len(buf) + 1) \div 2)
    ELSE Kth(buf, Len(buf) \div 2) + Kth(buf, (Len(buf) \div 2) + 1)

\* DrowsinessDetector._get_current_state
ServerGetCurrentState(d, detected) ==
    [ state          |-> d.current_state,
      eye_openness   |-> OrZero(d.smoothed_eye),
      th_low         |-> OrZero(d.TH_LOW),
      th_high        |-> OrZero(d.TH_HIGH),
      baseline_ready |-> d.TH_LOW # None,
      closed_for     |-> 0,
      alarm          |-> FALSE,
      detected       |-> detected ]

\* ServerSmooth with the old value taken whole, not weighted.
ServerSmoothUnweighted(d, raw_eye) ==
    [d EXCEPT !.smoothed_eye =
        IF d.smoothed_eye = None THEN raw_eye
        ELSE d.smoothed_eye + ((10 - d.SMOOTHING_FACTOR) * raw_eye) \div 10]

\* "Smoothing"
ServerSmooth(d, raw_eye) ==
    [d EXCEPT !.smoothed_eye =
        IF d.smoothed_eye = None THEN raw_eye
        ELSE Ema(d.SMOOTHING_FACTOR, d.smoothed_eye, raw_eye)]

\* "Baseline calibration": the branch taken while TH_LOW is None.
ServerCalibrate(d) ==
    LET buf == Append(d.baseline_buffer, d.smoothed_eye)
    IN  IF Len(buf) >= d.BASELINE_FRAMES
        THEN [d EXCEPT !.baseline_buffer = buf,
                       !.TH_LOW = 15 * NpMedianTwice(buf),
                       !.TH_HIGH = 17 * NpMedianTwice(buf)]
        ELSE [d EXCEPT !.baseline_buffer = buf]

\* ServerStateMachine with closed_start kept when the eyes open.
ServerStateMachineKeeping(d, t) ==
    IF 40 * d.smoothed_eye < d.TH_LOW
    THEN IF d.current_state = "OPEN"
         THEN [d EXCEPT !.current_state = "CLOSED",
                        !.closed_start = IF d.closed_start = None THEN t ELSE d.closed_start,
                        !.consecutive_detections = 1]
         ELSE [d EXCEPT !.consecutive_detections = d.consecutive_detections + 1]
    ELSE IF 40 * d.smoothed_eye > d.TH_HIGH
    THEN [d EXCEPT !.current_state = "OPEN",
                   !.consecutive_detections = 0]
    ELSE d

\* "State machine"
ServerStateMachine(d, t) ==
    IF 40 * d.smoothed_eye < d.TH_LOW
    THEN IF d.current_state = "OPEN"
         THEN [d EXCEPT !.current_state = "CLOSED",
                        !.closed_start = t,
                        !.consecutive_detections = 1]
         ELSE [d EXCEPT !.consecutive_detections = d.consecutive_detections + 1]
    ELSE IF 40 * d.smoothed_eye > d.TH_HIGH
    THEN [d EXCEPT !.current_state = "OPEN",
                   !.closed_start = None,
                   !.consecutive_detections = 0]
    ELSE d

\* ServerTimed without the count of frames.
ServerTimedUncounted(d) ==
    /\ d.current_state = "CLOSED"
    /\ d.closed_start # None /\ d.closed_start # 0

\* The guard of "Check for alarm": closed_for is computed at all.
ServerTimed(d) ==
    /\ d.current_state = "CLOSED"
    /\ d.closed_start # None /\ d.closed_start # 0
    /\ d.consecutive_detections >= d.FRAMES_REQUIRED

\* closed_for of the frame at time t
ServerClosedFor(d, t) == IF ServerTimed(d) THEN t - d.closed_start ELSE 0

\* ServerAlarm without the refractory test.
ServerAlarmNoRefractory(d, t) ==
    /\ ServerTimed(d)
    /\ ServerClosedFor(d, t) >= d.CLOSED_SECONDS

\* Whether the frame at time t fires the alarm.
ServerAlarm(d, t) ==
    /\ ServerTimed(d)
    /\ ServerClosedFor(d, t) >= d.CLOSED_SECONDS
    /\ (d.last_alarm_time = None \/ t - d.last_alarm_time >= d.REFRACTORY)

\* The alarm part of process_frame and the DetectorState it returns.
ServerFinish(d, t) ==
    [ d |-> IF ServerAlarm(d, t) THEN [d EXCEPT !.last_alarm_time = t] ELSE d,
      r |-> [ state          |-> d.current_state,
              eye_openness   |-> d.smoothed_eye,
              th_low         |-> d.TH_LOW,
              th_high        |-> d.TH_HIGH,
              baseline_ready |-> TRUE,
              closed_for     |-> ServerClosedFor(d, t),
              alarm          |-> ServerAlarm(d, t),
              detected       |-> TRUE ] ]

\* ServerDetected with the buffer fed and the thresholds derived on every frame.
ServerDetectedRecalibrating(d, t) ==
    IF d.TH_LOW = None
    THEN [d |-> ServerCalibrate(d), r |-> ServerGetCurrentState(ServerCalibrate(d), TRUE)]
    ELSE ServerFinish(ServerStateMachine(ServerCalibrate(d), t), t)

\* The frame with a face, after smoothing.
ServerDetected(d, t) ==
    IF d.TH_LOW = None
    THEN [d |-> ServerCalibrate(d), r |-> ServerGetCurrentState(ServerCalibrate(d), TRUE)]
    ELSE ServerFinish(ServerStateMachine(d, t), t)

\* ServerProcessFrame with a frame without a face smoothed as a signal of 0.
ServerProcessFrameDecay(d, raw_eye, t) ==
    IF raw_eye = NoFace
    THEN [d |-> ServerSmooth(d, 0), r |-> ServerGetCurrentState(ServerSmooth(d, 0), FALSE)]
    ELSE ServerDetected(ServerSmooth(d, raw_eye), t)

\* ServerProcessFrame with the calibration restarted by a frame without a face.
ServerProcessFrameRestarting(d, raw_eye, t) ==
    IF raw_eye = NoFace
    THEN LET e == IF d.TH_LOW = None THEN [d EXCEPT !.baseline_buffer = <<>>] ELSE d
         IN  [d |-> e, r |-> ServerGetCurrentState(e, FALSE)]
    ELSE ServerDetected(ServerSmooth(d, raw_eye), t)

\* DrowsinessDetector.process_frame: raw_eye is the frame's mean EAR, or NoFace;
\* t is time.time(). Gives the object's new fields d and the returned value r.
ServerProcessFrame(d, raw_eye, t) ==
    IF raw_eye = NoFace THEN [d |-> d, r |-> ServerGetCurrentState(d, FALSE)]
    ELSE ServerDetected(ServerSmooth(d, raw_eye), t)

\* ServerResetBaseline with closed_start kept.
ServerResetBaselineKeeping(d) ==
    [d EXCEPT !.baseline_buffer = <<>>,
              !.TH_LOW = None,
              !.TH_HIGH = None,
              !.current_state = "OPEN"]

\* DrowsinessDetector.reset_baseline
ServerResetBaseline(d) ==
    [d EXCEPT !.baseline_buffer = <<>>,
              !.TH_LOW = None,
              !.TH_HIGH = None,
              !.current_state = "OPEN",
              !.closed_start = None]

\* DrowsinessDetector.update_params
ServerUpdateParams(d, closed_seconds, refractory, smoothing_factor) ==
    [d EXCEPT
        !.CLOSED_SECONDS = IF closed_seconds # None THEN closed_seconds ELSE @,
        !.REFRACTORY = IF refractory # None THEN refractory ELSE @,
        !.SMOOTHING_FACTOR = IF smoothing_factor # None THEN smoothing_factor ELSE @]

---------------------------------------------------------------------------
(* The session: its inputs and its history *)

\* The settings objects passed to updateSettings / update_params.
SettingsInputs ==
    { [closedSeconds |-> 12, refractory |-> Undefined, smoothingFactor |-> Undefined],
      [closedSeconds |-> Undefined, refractory |-> 26, smoothingFactor |-> 0] }

\* Where a smoothed value lies with respect to the two thresholds.
Band(smoothed, low, high) ==
    IF 40 * smoothed < low THEN "below"
    ELSE IF 40 * smoothed > high THEN "above"
    ELSE "dead"

HistNew ==
    [ frames    |-> 0,       \* detected frames fed so far
      lastRaw   |-> None,    \* the raw signal of the last detected frame
      events    |-> 0,       \* changes of the raw signal, calls of reset and update
      raws      |-> {},      \* the raw signals fed so far
      plain     |-> TRUE,    \* only frames of the first calibration were fed, nothing else called
      band      |-> "none",  \* the band of the last detected frame ("uncal": no thresholds)
      below     |-> 0,       \* detected frames in a row below TH_LOW, up to the last one
      above     |-> 0,       \* detected frames in a row above TH_HIGH, up to the last one
      lastAlarm |-> None,    \* when alarm=true was last returned
      refrSame  |-> TRUE,    \* refractorySeconds is what it was at that alarm
      alarms    |-> 0,       \* how many alarm=true results were returned
      aboveRun  |-> FALSE,   \* the tracker is CLOSED and, since the frame that made it
                             \* CLOSED, a detected frame came above TH_HIGH
      sinceStart |-> IF impl = "client" THEN None ELSE 0,
                             \* detected frames since the calibration was started,
                             \* counted up to the number it takes (None: not started)
      counted   |-> 0,       \* server: detected frames below TH_LOW since the frame
                             \* that made the state CLOSED, that one included
      seen      |-> None,    \* when the last detected frame came (kept in SpecLive)
      gap       |-> 0,       \* the time between that frame and the detected frame
                             \* before it (kept in SpecLive)
      phase     |-> 0 ]      \* 1: an alarm fired in a CLOSED run; 2: and then
                             \* FRAMES_REQUIRED frames in a row above TH_HIGH came;
                             \* 3: and then CLOSED was entered again, at the last frame

\* The history after a detected frame with raw signal raw at time t: band is the
\* band of its smoothed value, before/after the tracker's state around the call,
\* alarm the flag returned, required the tracker's FRAMES_REQUIRED, duringFirst
\* whether the frame was fed to the first calibration.
HistFrame(h, raw, t, band, before, after, alarm, required, duringFirst) ==
    LET aboveNow == IF band = "above" THEN h.above + 1 ELSE 0
    IN  [ frames    |-> h.frames + 1,
          lastRaw   |-> raw,
          events    |-> IF h.lastRaw = None \/ h.lastRaw = raw THEN h.events
                        ELSE h.events + 1,
          raws      |-> h.raws \cup {raw},
          plain     |-> h.plain /\ duringFirst,
          band      |-> band,
          below     |-> IF band = "below" THEN h.below + 1 ELSE 0,
          above     |-> aboveNow,
          lastAlarm |-> IF alarm THEN t ELSE h.lastAlarm,
          refrSame  |-> alarm \/ h.refrSame,
          alarms    |-> IF alarm THEN h.alarms + 1 ELSE h.alarms,
          aboveRun  |-> after = "CLOSED" /\ before = "CLOSED"
                            /\ (h.aboveRun \/ band = "above"),
          sinceStart |-> LET n == IF impl = "client" THEN ClientBaselineFrames
                                  ELSE server.BASELINE_FRAMES
                         IN  IF h.sinceStart = None \/ h.sinceStart = n THEN h.sinceStart
                             ELSE h.sinceStart + 1,
          counted   |-> IF impl = "client" \/ after = "OPEN" THEN 0
                        ELSE IF before = "OPEN" THEN 1
                        ELSE IF band = "below" THEN h.counted + 1
                        ELSE h.counted,
          seen      |-> h.seen,
          gap       |-> h.gap,
          phase     |-> IF alarm THEN 1
                        ELSE IF h.phase = 1 /\ aboveNow >= required THEN 2
                        ELSE IF h.phase = 1 /\ after = "OPEN" /\ band # "above" THEN 0
                        ELSE IF h.phase = 2 /\ before = "OPEN" /\ after = "CLOSED" THEN 3
                        ELSE IF h.phase = 3 THEN 0
                        ELSE h.phase ]

\* A detected frame with this raw signal is within the bounds of the model.
WithinBounds(raw, maxFrames, maxEvents) ==
    /\ hist.frames < maxFrames
    /\ (hist.lastRaw # None /\ hist.lastRaw # raw) => hist.events < maxEvents

\* The WebSocket connections that the server can have at once.
Connections == {1, 2}

\* The calibration length of the detectors of the connections: main.py takes
\* the default of 60 frames, the sessions of the model are shorter.
ConnBaselineFrames == 1

\* A connection that /ws has not accepted yet: websocket_endpoint gives it a
\* detector of its own when it accepts it.
ConnectionNew ==
    [ status   |-> "none",    \* "none", or "open" once accepted
      detector |-> DrowsinessDetectorNew(7, ConnBaselineFrames),
      inbox    |-> <<>>,      \* messages of the client that receive_json has not returned yet
      pending  |-> <<>>,      \* the message that the endpoint is sending (await send_json)
      outbox   |-> <<>>,      \* the messages sent on the connection, in order
      received |-> <<>> ]     \* the messages that receive_json returned, in order, each
                              \* with the time at which the endpoint handled it

\* The refs of the Detect page when it mounts, and the sockets and interval
\* timers that it has created.
DetectPageNew ==
    [ isDetecting |-> FALSE,  \* the camera runs and the video element is rendered
      wsRef       |-> 0,      \* wsRef.current: a socket, or 0 for null
      frameTimer  |-> 0,      \* frameTimer.current: an interval timer, or 0 for null
      sockets     |-> <<>>,   \* the readyState of every WebSocket created
      timers      |-> {},     \* the interval timers that are running
      timersMade  |-> 0,      \* how many setInterval calls were made
      framesSent  |-> 0 ]     \* how many frame messages were sent

Init ==
    /\ impl \in {"client", "server"}
    /\ client = EyeDetectorNew
    /\ \E f \in SmoothingChoices, n \in 1..MaxBaseline :
          server = IF impl = "server" THEN DrowsinessDetectorNew(f, n)
                   ELSE DrowsinessDetectorNew(7, 60)
    /\ now = StartTime
    /\ clientRes = ClientNull
    /\ serverRes = ServerGetCurrentState(server, FALSE)
    /\ lastOp = "new"
    /\ hist = HistNew
    /\ conns = [c \in Connections |-> ConnectionNew]
    /\ page = DetectPageNew

---------------------------------------------------------------------------
(* The client's operations *)

\* EyeDetector.initialize: the face landmarker is loaded.
ClientInitialize ==
    /\ impl = "client"
    /\ ~client.faceLandmarker
    /\ client' = [client EXCEPT !.faceLandmarker = TRUE]
    /\ lastOp' = "initialize"
    /\ UNCHANGED <<conns, page, impl, server, now, clientRes, serverRes, hist>>

\* One call of EyeDetector.processFrame, dt after the previous one: the frame's
\* signal is one of raws or there is no face, dt is one of steps.
ClientFrame(raws, steps, maxFrames, maxEvents) ==
    /\ impl = "client"
    /\ \E rawEye \in raws \cup {NoFace}, dt \in steps :
          LET t   == now + dt
              out == ClientProcessFrame(client, rawEye, t)
              fed == client.faceLandmarker /\ rawEye # NoFace
          IN  /\ t <= MaxTime
              /\ fed => WithinBounds(rawEye, maxFrames, maxEvents)
              /\ ~client.faceLandmarker => rawEye = NoFace
              /\ now' = t
              /\ client' = out.d
              /\ clientRes' = out.r
              /\ lastOp' = IF fed THEN "frame"
                           ELSE IF client.faceLandmarker THEN "noface" ELSE "null"
              /\ hist' = IF fed
                         THEN HistFrame(hist, rawEye, t,
                                        Band(out.d.smoothedEye, out.d.TH_LOW, out.d.TH_HIGH),
                                        client.eyeState, out.d.eyeState, out.r.alarm,
                                        client.FRAMES_REQUIRED,
                                        client.isCalibrating)
                         ELSE hist
    /\ UNCHANGED <<conns, page, impl, server, serverRes>>

\* One call of EyeDetector.startCalibration.
ClientStart ==
    /\ impl = "client"
    /\ hist.events < MaxEvents
    /\ client' = ClientStartCalibration(client)
    /\ lastOp' = "reset"
    /\ hist' = [hist EXCEPT !.events = hist.events + 1,
                            !.plain = hist.plain /\ hist.frames = 0,
                            !.phase = 0,
                            !.sinceStart = 0]
    /\ UNCHANGED <<conns, page, impl, server, now, clientRes, serverRes>>

\* One call of EyeDetector.updateSettings.
ClientUpdate ==
    /\ impl = "client"
    /\ hist.events < MaxEvents
    /\ \E settings \in SettingsInputs :
          /\ client' = ClientUpdateSettings(client, settings)
          /\ hist' = [hist EXCEPT !.events = hist.events + 1,
                                  !.plain = FALSE,
                                  !.refrSame = hist.refrSame
                                               /\ client'.REFRACTORY = client.REFRACTORY]
    /\ lastOp' = "update"
    /\ UNCHANGED <<conns, page, impl, server, now, clientRes, serverRes>>

---------------------------------------------------------------------------
(* The server's operations *)

\* One call of DrowsinessDetector.process_frame, dt after the previous one: the
\* frame's signal is one of raws or there is no face, dt is one of steps.
ServerFrame(raws, steps, maxFrames, maxEvents) ==
    /\ impl = "server"
    /\ \E raw_eye \in raws \cup {NoFace}, dt \in steps :
          LET t   == now + dt
              out == ServerProcessFrame(server, raw_eye, t)
              fed == raw_eye # NoFace
          IN  /\ t <= MaxTime
              /\ fed => WithinBounds(raw_eye, maxFrames, maxEvents)
              /\ now' = t
              /\ server' = out.d
              /\ serverRes' = out.r
              /\ lastOp' = IF fed THEN "frame" ELSE "noface"
              /\ hist' = IF fed
                         THEN HistFrame(hist, raw_eye, t,
                                        IF server.TH_LOW = None THEN "uncal"
                                        ELSE Band(out.d.smoothed_eye, out.d.TH_LOW, out.d.TH_HIGH),
                                        server.current_state, out.d.current_state, out.r.alarm,
                                        server.FRAMES_REQUIRED,
                                        server.TH_LOW = None)
                         ELSE hist
    /\ UNCHANGED <<conns, page, impl, client, clientRes>>

\* One {type: "cmd", cmd: "begin_baseline"} message.
ServerReset ==
    /\ impl = "server"
    /\ hist.events < MaxEvents
    /\ server' = ServerResetBaseline(server)
    /\ lastOp' = "reset"
    /\ hist' = [hist EXCEPT !.events = hist.events + 1, !.plain = FALSE, !.phase = 0,
                            !.sinceStart = 0]
    /\ UNCHANGED <<conns, page, impl, client, now, clientRes, serverRes>>

\* One {type: "cmd", cmd: "set_params"} message.
ServerUpdate ==
    /\ impl = "server"
    /\ hist.events < MaxEvents
    /\ \E params \in SettingsInputs :
          /\ server' = ServerUpdateParams(server, params.closedSeconds, params.refractory,
                                          params.smoothingFactor)
          /\ hist' = [hist EXCEPT !.events = hist.events + 1,
                                  !.plain = FALSE,
                                  !.refrSame = hist.refrSame
                                               /\ server'.REFRACTORY = server.REFRACTORY]
    /\ lastOp' = "update"
    /\ UNCHANGED <<conns, page, impl, client, now, clientRes, serverRes>>

Next ==
    \/ ClientInitialize
    \/ ClientFrame(Samples, TimeSteps, MaxFrames, MaxEvents)
    \/ ClientStart
    \/ ClientUpdate
    \/ ServerFrame(Samples, TimeSteps, MaxFrames, MaxEvents)
    \/ ServerReset
    \/ ServerUpdate

Spec == Init /\ [][Next]_vars

\* Longer sessions of frames alone: a closure, its alarms, the recovery and the
\* next closure.
NextRun ==
    \/ ClientInitialize
    \/ ClientFrame(Samples, TimeSteps, MaxRunFrames, MaxRunEvents)
    \/ ServerFrame(Samples, TimeSteps, MaxRunFrames, MaxRunEvents)

SpecRun == Init /\ [][NextRun]_vars

\* A new client tracker.
InitCal == Init /\ impl = "client"

\* Sessions of the client long enough for its calibration of 20 frames, the
\* clock standing still.
NextCal ==
    \/ ClientInitialize
    \/ ClientStart
    \/ ClientFrame(Samples, {0}, MaxCalFrames, MaxEvents)

SpecCal == InitCal /\ [][NextCal]_vars

\* The settings objects / params dictionaries of the configuration sessions:
\* between them they name each of the five options of the tracker.
ConfigInputs ==
    { [closedSeconds |-> 12, refractory |-> Undefined, smoothingFactor |-> 0,
       calibrationSampleCount |-> 3, framesRequired |-> 2],
      [closedSeconds |-> Undefined, refractory |-> 24, smoothingFactor |-> Undefined,
       calibrationSampleCount |-> Undefined, framesRequired |-> Undefined] }

\* One call of EyeDetector.updateSettings with one of ConfigInputs: the fields
\* that updateSettings does not read are ignored.
ClientConfigure ==
    /\ impl = "client"
    /\ hist.events < MaxEvents
    /\ \E settings \in ConfigInputs :
          /\ client' = ClientUpdateSettings(client, settings)
          /\ hist' = [hist EXCEPT !.events = hist.events + 1,
                                  !.plain = FALSE,
                                  !.refrSame = hist.refrSame
                                               /\ client'.REFRACTORY = client.REFRACTORY]
    /\ lastOp' = "update"
    /\ UNCHANGED <<conns, page, impl, server, now, clientRes, serverRes>>

\* One {type: "cmd", cmd: "set_params"} message with one of ConfigInputs as its
\* params: the endpoint reads three of the keys.
ServerConfigure ==
    /\ impl = "server"
    /\ hist.events < MaxEvents
    /\ \E params \in ConfigInputs :
          /\ server' = ServerUpdateParams(server, params.closedSeconds, params.refractory,
                                          params.smoothingFactor)
          /\ hist' = [hist EXCEPT !.events = hist.events + 1,
                                  !.plain = FALSE,
                                  !.refrSame = hist.refrSame
                                               /\ server'.REFRACTORY = server.REFRACTORY]
    /\ lastOp' = "update"
    /\ UNCHANGED <<conns, page, impl, client, now, clientRes, serverRes>>

\* Sessions of frames and configuration updates.
NextCfg ==
    \/ ClientInitialize
    \/ ClientFrame(Samples, TimeSteps, MaxFrames, MaxEvents)
    \/ ClientConfigure
    \/ ServerFrame(Samples, TimeSteps, MaxFrames, MaxEvents)
    \/ ServerConfigure

SpecCfg == Init /\ [][NextCfg]_vars

\* Sessions in which the raw signal can also be 0 (the eyelid landmarks
\* coincide), the clock standing still.
NextZero ==
    \/ ClientInitialize
    \/ ClientStart
    \/ ClientFrame(Samples \cup {0}, {0}, MaxFrames, MaxEvents)
    \/ ServerFrame(Samples \cup {0}, {0}, MaxFrames, MaxEvents)
    \/ ServerReset

SpecZero == Init /\ [][NextZero]_vars

\* The scenario of the specification: calibration frames of raw signal 0.30,
\* then frames of raw signal 0.10, the first of them at scenario time 0 and one
\* every 0.15 s up to 1.8 s, and a last one at 2.0 s.
Scenario ==
    [ calibration |-> 60, open |-> 300, shut |-> 100, step |-> 3, until |-> 36, last |-> 40 ]

\* The number of frames of the scenario.
ScenarioFrames == Scenario.calibration + 1 + (Scenario.until \div Scenario.step) + 1

\* The raw signal of the k-th frame of the scenario.
ScenarioRaw(k) == IF k <= Scenario.calibration THEN Scenario.open ELSE Scenario.shut

\* The time between the k-th frame of the scenario and the one before it.
ScenarioStep(k) ==
    IF k <= Scenario.calibration + 1 THEN 0
    ELSE IF k < ScenarioFrames THEN Scenario.step
    ELSE Scenario.last - Scenario.until

\* A tracker constructed with the defaults, at scenario time 0.
InitScenario ==
    /\ impl \in {"client", "server"}
    /\ client = EyeDetectorNew
    /\ server = DrowsinessDetectorNew(7, 60)
    /\ now = StartTime
    /\ clientRes = ClientNull
    /\ serverRes = ServerGetCurrentState(server, FALSE)
    /\ lastOp = "new"
    /\ hist = HistNew
    /\ conns = [c \in Connections |-> ConnectionNew]
    /\ page = DetectPageNew

\* The client's calibration is started, before the first frame.
ScenarioStart ==
    /\ impl = "client"
    /\ client.faceLandmarker
    /\ ~client.isCalibrating
    /\ hist.frames = 0
    /\ client' = ClientStartCalibration(client)
    /\ lastOp' = "reset"
    /\ hist' = [hist EXCEPT !.sinceStart = 0]
    /\ UNCHANGED <<conns, page, impl, server, now, clientRes, serverRes>>

\* The next frame of the scenario, processed by EyeDetector.processFrame.
ScenarioClientFrame ==
    /\ impl = "client"
    /\ client.faceLandmarker
    /\ client.isCalibrating \/ hist.frames > 0
    /\ hist.frames < ScenarioFrames
    /\ LET k   == hist.frames + 1
           t   == now + ScenarioStep(k)
           out == ClientProcessFrame(client, ScenarioRaw(k), t)
       IN  /\ now' = t
           /\ client' = out.d
           /\ clientRes' = out.r
           /\ hist' = HistFrame(hist, ScenarioRaw(k), t,
                                Band(out.d.smoothedEye, out.d.TH_LOW, out.d.TH_HIGH),
                                client.eyeState, out.d.eyeState, out.r.alarm,
                                client.FRAMES_REQUIRED, client.isCalibrating)
    /\ lastOp' = "frame"
    /\ UNCHANGED <<conns, page, impl, server, serverRes>>

\* The next frame of the scenario, processed by DrowsinessDetector.process_frame.
ScenarioServerFrame ==
    /\ impl = "server"
    /\ hist.frames < ScenarioFrames
    /\ LET k   == hist.frames + 1
           t   == now + ScenarioStep(k)
           out == ServerProcessFrame(server, ScenarioRaw(k), t)
       IN  /\ now' = t
           /\ server' = out.d
           /\ serverRes' = out.r
           /\ hist' = HistFrame(hist, ScenarioRaw(k), t,
                                IF server.TH_LOW = None THEN "uncal"
                                ELSE Band(out.d.smoothed_eye, out.d.TH_LOW, out.d.TH_HIGH),
                                server.current_state, out.d.current_state, out.r.alarm,
                                server.FRAMES_REQUIRED, server.TH_LOW = None)
    /\ lastOp' = "frame"
    /\ UNCHANGED <<conns, page, impl, client, clientRes>>

NextScenario ==
    \/ ClientInitialize
    \/ ScenarioStart
    \/ ScenarioClientFrame
    \/ ScenarioServerFrame

SpecScenario == InitScenario /\ [][NextScenario]_vars

---------------------------------------------------------------------------
(* The tracker of the session, whichever version it is *)

State == IF impl = "client" THEN client.eyeState ELSE server.current_state

\* closedSince is set (the client keeps 0 for "not closed").
ClosedSinceSet ==
    IF impl = "client" THEN client.closedStartTime > 0 ELSE server.closed_start # None

ClosedSince == IF impl = "client" THEN client.closedStartTime ELSE server.closed_start

ClosedSeconds == IF impl = "client" THEN client.CLOSED_SECONDS ELSE server.CLOSED_SECONDS

Refractory == IF impl = "client" THEN client.REFRACTORY ELSE server.REFRACTORY

FramesRequired == IF impl = "client" THEN client.FRAMES_REQUIRED ELSE server.FRAMES_REQUIRED

\* The streak counters.
Streaks ==
    IF impl = "client" THEN <<client.closedFrames, client.openFrames>>
    ELSE <<server.consecutive_detections>>

\* The fields of the last result.
ResDetected == IF impl = "client" THEN clientRes.detected ELSE serverRes.detected

ResReady == IF impl = "client" THEN clientRes.baseline_ready ELSE serverRes.baseline_ready

ResAlarm == IF impl = "client" THEN clientRes.alarm ELSE serverRes.alarm

ResClosedFor == IF impl = "client" THEN clientRes.closed_for ELSE serverRes.closed_for

ResState == IF impl = "client" THEN clientRes.state ELSE serverRes.state

\* This step is a processFrame call with a face in the frame.
DetectedFrame == hist'.frames = hist.frames + 1

\* This step is a processFrame call without a face in the frame.
NoFaceFrame == lastOp' = "noface"

\* The median of a buffer, doubled: the sum of its two middle entries in
\* sorted order (the same entry twice when the length is odd).
MedianTwice(buf) == Kth(buf, (Len(buf) + 1) \div 2) + Kth(buf, (Len(buf) + 2) \div 2)

---------------------------------------------------------------------------
(* The claims *)

\* C1. Refractory enforcement: while refractorySeconds is not changed, a frame
\* that returns alarm=true comes at least refractorySeconds after the previous
\* frame that returned alarm=true.
RefractoryEnforcement ==
    [][ (DetectedFrame /\ ResAlarm' /\ hist.lastAlarm # None /\ hist.refrSame)
            => now' - hist.lastAlarm >= Refractory ]_vars

\* A second alarm has just been returned, refractorySeconds never changed.
RefractoryWitness ==
    /\ lastOp = "frame"
    /\ ResAlarm
    /\ hist.alarms >= 2
    /\ Refractory = IF impl = "client" THEN EyeDetectorNew.REFRACTORY
                    ELSE DrowsinessDetectorNew(7, 1).REFRACTORY

\* C2. Alarm rule: a detected, calibrated frame returns alarm=true if and only
\* if the state is CLOSED with closedSince set, now - closedSince >= closedSeconds
\* and no alarm fired before or now - lastAlarm >= refractorySeconds.
AlarmRule ==
    [][ (DetectedFrame /\ ResReady')
            => (ResAlarm' <=> /\ State' = "CLOSED"
                              /\ ClosedSinceSet'
                              /\ now' - ClosedSince' >= ClosedSeconds
                              /\ (hist.lastAlarm = None
                                    \/ now' - hist.lastAlarm >= Refractory)) ]_vars

\* C3. A frame without a face returns detected=false with the current state and
\* changes no field of the tracker.
NoInputFrame ==
    [][ NoFaceFrame
            => /\ client' = client
               /\ server' = server
               /\ ~ResDetected'
               /\ ResState' = State ]_vars

\* A frame without a face came while the tracker was CLOSED, after an alarm.
NoInputWitness ==
    /\ lastOp = "noface"
    /\ State = "CLOSED"
    /\ ClosedSinceSet
    /\ hist.alarms >= 1

\* C4. A detected frame whose result carries baselineReady=false carries
\* alarm=false and closedFor=0, and the state is the one before the frame.
UncalibratedFrame ==
    [][ (DetectedFrame /\ ~ResReady')
            => /\ ~ResAlarm'
               /\ ResClosedFor' = 0
               /\ State' = State ]_vars

\* C5. Threshold derivation: once the buffer has filled, TH_LOW is 0.75 and
\* TH_HIGH is 0.85 times the median of the buffer.
ThresholdDerivation ==
    /\ (impl = "client" /\ ~client.isCalibrating
            /\ Len(client.baseline) >= ClientBaselineFrames)
        => /\ client.TH_LOW = 15 * MedianTwice(client.baseline)
           /\ client.TH_HIGH = 17 * MedianTwice(client.baseline)
    /\ (impl = "server" /\ server.TH_LOW # None)
        => /\ server.TH_LOW = 15 * MedianTwice(server.baseline_buffer)
           /\ server.TH_HIGH = 17 * MedianTwice(server.baseline_buffer)

\* The frames fed so far are those of the first calibration of a new tracker,
\* exactly as many as it takes, and all carried the raw signal v.
IdenticalCalibration(v) ==
    /\ hist.plain
    /\ lastOp = "frame"
    /\ hist.raws = {v}
    /\ hist.frames = IF impl = "client" THEN ClientBaselineFrames
                     ELSE server.BASELINE_FRAMES

\* C6. Calibration determinism: calibrationSampleCount frames of the same raw
\* signal v, fed to a new tracker, give TH_LOW = 0.75 v, TH_HIGH = 0.85 v and
\* baselineReady=true.
CalibrationDeterminism ==
    \A v \in Samples :
        IdenticalCalibration(v)
            => /\ ResReady
               /\ impl = "client" => client.TH_LOW = 30 * v /\ client.TH_HIGH = 34 * v
               /\ impl = "server" => server.TH_LOW = 30 * v /\ server.TH_HIGH = 34 * v

\* C7. Debounce: a calibrated tracker that is OPEN stays OPEN at each of the
\* first framesRequiredToConfirm - 1 frames of a run of frames below TH_LOW, and
\* at a frame above TH_HIGH.
Debounce ==
    [][ (DetectedFrame /\ ResReady' /\ State = "OPEN"
            /\ (hist'.band = "above"
                  \/ (hist'.band = "below" /\ hist'.below < FramesRequired)))
            => State' = "OPEN" ]_vars

\* C8. Hysteresis dead band: a detected frame whose smoothed value lies between
\* the thresholds (TH_LOW <= smoothed <= TH_HIGH) changes neither the state nor
\* a streak counter. (For the client: also with the thresholds it starts with.)
DeadBand ==
    [][ (DetectedFrame /\ hist'.band = "dead")
            => State' = State /\ Streaks' = Streaks ]_vars

\* A dead-band frame has just come with a streak counter above 0.
DeadBandWitness ==
    /\ lastOp = "frame"
    /\ hist.band = "dead"
    /\ \E i \in 1..Len(Streaks) : Streaks[i] > 0

\* C9. Sustained-signal transitions: a frame moves the tracker OPEN -> CLOSED
\* only when it ends a run of framesRequiredToConfirm detected frames below
\* TH_LOW, and CLOSED -> OPEN only when it ends such a run above TH_HIGH.
SustainedTransitions ==
    [][ DetectedFrame
            => /\ (State = "OPEN" /\ State' = "CLOSED") => hist'.below >= FramesRequired
               /\ (State = "CLOSED" /\ State' = "OPEN") => hist'.above >= FramesRequired ]_vars

---------------------------------------------------------------------------
(* More of the tracker of the session *)

\* The calibration buffer.
Buffer == IF impl = "client" THEN client.baseline ELSE server.baseline_buffer

\* baselineReady, as the next result would report it.
Ready ==
    IF impl = "client" THEN Len(client.baseline) >= ClientBaselineFrames
    ELSE server.TH_LOW # None

\* The two thresholds.
Thresholds ==
    IF impl = "client" THEN <<client.TH_LOW, client.TH_HIGH>>
    ELSE <<server.TH_LOW, server.TH_HIGH>>

\* The refractory timer: the client keeps the end of the refractory period,
\* the server the time of the last alarm.
RefractoryTimer ==
    IF impl = "client" THEN client.refractoryUntil ELSE server.last_alarm_time

\* The smoothed signal.
Smoothed == IF impl = "client" THEN client.smoothedEye ELSE server.smoothed_eye

SmoothingFactor ==
    IF impl = "client" THEN client.smoothingFactor ELSE server.SMOOTHING_FACTOR

\* This step is a call of startCalibration / reset_baseline.
ResetCall == lastOp' = "reset"

\* This step is a call of updateSettings / update_params.
UpdateCall == lastOp' = "update"

\* C11. resetCalibration leaves the tracker with an empty calibration buffer,
\* not calibrated (baselineReady=false), in state OPEN and with closedSince
\* cleared, whatever the state it is called in.
ResetEffect ==
    [][ ResetCall
            => /\ Buffer' = <<>>
               /\ ~Ready'
               /\ State' = "OPEN"
               /\ ~ClosedSinceSet' ]_vars

\* C12. resetCalibration leaves the refractory timer as it is.
ResetKeepsRefractory ==
    [][ ResetCall => RefractoryTimer' = RefractoryTimer ]_vars

\* resetCalibration has just been called less than refractorySeconds after an
\* alarm.
ResetKeepsRefractoryWitness ==
    /\ lastOp = "reset"
    /\ hist.lastAlarm # None
    /\ now - hist.lastAlarm < Refractory
    /\ RefractoryTimer = IF impl = "client" THEN hist.lastAlarm + Refractory
                         ELSE hist.lastAlarm

\* calibrationSampleCount: the client's is the literal 20.
CalibrationSampleCount ==
    IF impl = "client" THEN ClientBaselineFrames ELSE server.BASELINE_FRAMES

\* updateParameters touches nothing of the tracker but its configuration.
UpdateKeepsState ==
    /\ Thresholds' = Thresholds
    /\ State' = State
    /\ Smoothed' = Smoothed
    /\ Buffer' = Buffer
    /\ Streaks' = Streaks
    /\ ClosedSince' = ClosedSince
    /\ RefractoryTimer' = RefractoryTimer

\* C13. updateParameters sets the configuration fields it is given, leaves the
\* other ones as they are and touches nothing else of the tracker; the next
\* frame works with the new values: it smooths with the smoothing factor in
\* force, an alarm it returns has closedFor >= the closedSeconds in force and
\* comes at least the refractorySeconds in force after the previous alarm, and
\* it returns alarm=true when closedFor has reached closedSeconds and more than
\* the refractorySeconds in force have passed since the previous alarm.
UpdateEffect ==
    [][ /\ UpdateCall
            => /\ \E s \in ConfigInputs :
                    /\ ClosedSeconds' = IF s.closedSeconds # Undefined
                                        THEN s.closedSeconds ELSE ClosedSeconds
                    /\ Refractory' = IF s.refractory # Undefined
                                     THEN s.refractory ELSE Refractory
                    /\ SmoothingFactor' = IF s.smoothingFactor # Undefined
                                          THEN s.smoothingFactor ELSE SmoothingFactor
               /\ UpdateKeepsState
        /\ DetectedFrame
            => /\ hist.frames > 0
                    => Smoothed' = Ema(SmoothingFactor, Smoothed, hist'.lastRaw)
               /\ ResAlarm' => now' - ClosedSince' >= ClosedSeconds
               /\ (ResAlarm' /\ hist.lastAlarm # None)
                    => now' - hist.lastAlarm >= Refractory
               /\ (ResClosedFor' >= ClosedSeconds /\ hist.lastAlarm # None
                        /\ now' - hist.lastAlarm > Refractory)
                    => ResAlarm' ]_vars

\* C14. Each of the five configuration options can be overridden by an update:
\* an update call leaves every option that its argument names at the value
\* given for it.
AllOptionsUpdatable ==
    [][ UpdateCall
            => \E s \in ConfigInputs :
                    /\ s.closedSeconds # Undefined => ClosedSeconds' = s.closedSeconds
                    /\ s.refractory # Undefined => Refractory' = s.refractory
                    /\ s.smoothingFactor # Undefined => SmoothingFactor' = s.smoothingFactor
                    /\ s.calibrationSampleCount # Undefined
                            => CalibrationSampleCount' = s.calibrationSampleCount
                    /\ s.framesRequired # Undefined => FramesRequired' = s.framesRequired ]_vars

\* The scenario time of the current state.
ScenarioTime == now - StartTime

\* The number of the frame last processed, counted from the first frame of raw
\* signal 0.10 (0 or less: a calibration frame).
ScenarioSample == hist.frames - Scenario.calibration

\* C15. Scenario, closing step: the tracker is OPEN at each of the first four
\* samples of 0.10 and CLOSED at the fifth (t = 0.60) with closedSince = 0.60.
ScenarioClosing ==
    /\ ScenarioSample \in 1..4 => State = "OPEN"
    /\ ScenarioSample = 5
        => /\ ScenarioTime = 12
           /\ State = "CLOSED"
           /\ ClosedSinceSet
           /\ ClosedSince - StartTime = 12

\* C16. Scenario, alarm step: no frame before t = 1.8 returns alarm=true, the
\* frame at t = 1.8 does, with closedFor = 1.2, and the frame at t = 2.0 does
\* not.
ScenarioAlarm ==
    /\ (ScenarioSample >= 1 /\ ScenarioTime < Scenario.until) => hist.alarms = 0
    /\ (ScenarioSample >= 1 /\ ScenarioTime = Scenario.until)
        => ResAlarm /\ ResClosedFor = 24 /\ hist.alarms = 1
    /\ (ScenarioSample >= 1 /\ ScenarioTime = Scenario.last)
        => ~ResAlarm /\ hist.alarms = 1

\* C17. Whenever the thresholds are set (the client's always are), TH_LOW is
\* strictly below TH_HIGH.
ThresholdOrder ==
    /\ impl = "client" => client.TH_LOW < client.TH_HIGH
    /\ (impl = "server" /\ server.TH_LOW # None) => server.TH_LOW < server.TH_HIGH

\* A calibration has completed and none has been started since.
Calibrated ==
    IF impl = "client"
    THEN ~client.isCalibrating /\ Len(client.baseline) >= ClientBaselineFrames
    ELSE server.TH_LOW # None

SmoothingRule ==
    [][ DetectedFrame
            => Smoothed' = IF hist.frames = 0 THEN hist'.lastRaw
                           ELSE Ema(SmoothingFactor, Smoothed, hist'.lastRaw) ]_vars

\* C20. closedSince is set exactly when the state is CLOSED: after every step
\* a CLOSED tracker holds in closedSince the time of the frame at which it
\* entered CLOSED, and an OPEN tracker holds none.
ClosedSinceTracksState ==
    [][ /\ State' = "CLOSED"
            => /\ ClosedSinceSet'
               /\ ClosedSince' = IF State = "OPEN" THEN now' ELSE ClosedSince
        /\ State' = "OPEN" => ~ClosedSinceSet' ]_vars

\* reset_baseline has just been called on a tracker that the last frame, below
\* TH_LOW, had left CLOSED.
ClosedSinceWitness ==
    /\ lastOp = "reset"
    /\ impl = "server"
    /\ hist.band = "below"
    /\ State = "OPEN"
    /\ ~ClosedSinceSet

\* C21. Reported closed duration: on a detected, calibrated frame closedFor is
\* now - closedSince when the state is CLOSED and 0 when it is OPEN; it is never
\* negative, and from one detected frame to the next of one CLOSED run it does
\* not decrease.
ReportedClosedFor ==
    [][ (DetectedFrame /\ ResReady')
            => /\ ResClosedFor' = IF State' = "CLOSED" THEN now' - ClosedSince' ELSE 0
               /\ ResClosedFor' >= 0
               /\ (lastOp = "frame" /\ State = "CLOSED" /\ State' = "CLOSED")
                    => ResClosedFor' >= ResClosedFor ]_vars

---------------------------------------------------------------------------
(* The server's endpoint: websocket_endpoint of backend/main.py *)

\* Messages that the clients send, over all connections, in one session of
\* SpecConn.
MaxMessages == 3

\* Time that passes while the endpoint waits for a frame message.
ConnSteps == {0, 24}

\* {type: "frame", data: ...}: the image is given by the eye-aspect-ratio that
\* the detector finds in it, or NoFace.
FrameMessage(raw) ==
    [type |-> "frame", cmd |-> "", raw |-> raw,
     params |-> [closedSeconds |-> Undefined, refractory |-> Undefined,
                 smoothingFactor |-> Undefined]]

\* {type: "cmd", cmd: "begin_baseline"}
BeginBaseline ==
    [type |-> "cmd", cmd |-> "begin_baseline", raw |-> NoFace,
     params |-> [closedSeconds |-> Undefined, refractory |-> Undefined,
                 smoothingFactor |-> Undefined]]

\* {type: "cmd", cmd: "set_params", params: {...}}: a key that params lacks is
\* Undefined (params.get gives None).
SetParams(params) ==
    [type |-> "cmd", cmd |-> "set_params", raw |-> NoFace, params |-> params]

\* The payload field of a message that has none.
NoPayload ==
    [ state |-> "", eye_openness |-> 0, th_low |-> 0, th_high |-> 0,
      baseline_ready |-> FALSE, closed_for |-> 0, alarm |-> FALSE, detected |-> FALSE ]

\* {type: "info", message: text}
InfoMessage(text) == [type |-> "info", message |-> text, payload |-> NoPayload]

\* {type: "state", payload: {...}}, the payload built from the DetectorState r.
StateMessage(r) == [type |-> "state", message |-> "", payload |-> r]

\* The frame branch with process_frame called twice on the frame.
EndpointFrameTwice(d, raw, t) ==
    LET out == ServerProcessFrame(ServerProcessFrame(d, raw, t).d, raw, t)
    IN  [d |-> out.d, reply |-> StateMessage(out.r)]

\* The frame branch of the message loop: d is the connection's detector, t the
\* time of the process_frame call. Gives the detector's new fields and the
\* message sent back.
EndpointFrame(d, raw, t) ==
    LET out == ServerProcessFrame(d, raw, t)
    IN  [d |-> out.d, reply |-> StateMessage(out.r)]

\* The cmd branch answering without calling the detector.
EndpointCmdReplyOnly(d, msg) ==
    IF msg.cmd = "begin_baseline"
    THEN [d |-> d, reply |-> InfoMessage("baseline_started")]
    ELSE [d |-> d, reply |-> InfoMessage("parameters_updated")]

\* The cmd branch of the message loop, for the two commands it knows.
EndpointCmd(d, msg) ==
    IF msg.cmd = "begin_baseline"
    THEN [d |-> ServerResetBaseline(d), reply |-> InfoMessage("baseline_started")]
    ELSE [d |-> ServerUpdateParams(d, msg.params.closedSeconds, msg.params.refractory,
                                   msg.params.smoothingFactor),
          reply |-> InfoMessage("parameters_updated")]

\* All the connections working on the detector of the first one.
DetectorShared(c) == 1

\* The connection whose record holds the detector that the endpoint of
\* connection c works on: detector is a local variable of websocket_endpoint.
DetectorOf(c) == c

\* The messages that the clients have sent so far.
MessagesSent ==
    LET n(c) == Len(conns[c].inbox) + Len(conns[c].received)
    IN  n(1) + n(2)

\* A tracker constructed with the defaults, and no connection yet.
InitConn == InitScenario /\ impl = "server"

\* /ws accepts a connection: it creates the connection's detector and sends
\* the first info message.
ConnAccept ==
    /\ \E c \in Connections :
          /\ conns[c].status = "none"
          /\ conns' = [conns EXCEPT
                          ![c].status = "open",
                          ![c].detector = DrowsinessDetectorNew(7, ConnBaselineFrames),
                          ![c].pending = <<InfoMessage("Connected to DrowsyVision detector")>>]
    /\ UNCHANGED <<page, impl, client, server, now, clientRes, serverRes, lastOp, hist>>

\* The client of a connection sends a frame message (sendFrame of the page).
ClientSendFrame ==
    /\ MessagesSent < MaxMessages
    /\ \E c \in Connections, raw \in Samples \cup {NoFace} :
          /\ conns[c].status = "open"
          /\ conns' = [conns EXCEPT ![c].inbox = Append(@, FrameMessage(raw))]
    /\ UNCHANGED <<page, impl, client, server, now, clientRes, serverRes, lastOp, hist>>

\* The client of a connection sends a command (recalibrate of the page sends
\* begin_baseline).
ClientSendCmd ==
    /\ MessagesSent < MaxMessages
    /\ \E c \in Connections, msg \in {BeginBaseline} \cup {SetParams(s) : s \in SettingsInputs} :
          /\ conns[c].status = "open"
          /\ conns' = [conns EXCEPT ![c].inbox = Append(@, msg)]
    /\ UNCHANGED <<page, impl, client, server, now, clientRes, serverRes, lastOp, hist>>

\* receive_json returns a frame message: the endpoint has the detector process
\* it and starts sending the state.
ConnFrame ==
    /\ \E c \in Connections, dt \in ConnSteps :
          LET msg == Head(conns[c].inbox)
              t   == now + dt
              out == EndpointFrame(conns[DetectorOf(c)].detector, msg.raw, t)
          IN  /\ conns[c].status = "open"
              /\ conns[c].pending = <<>>
              /\ conns[c].inbox # <<>>
              /\ msg.type = "frame"
              /\ t <= MaxTime
              /\ now' = t
              /\ conns' = [conns EXCEPT
                              ![DetectorOf(c)].detector = out.d,
                              ![c].inbox = Tail(@),
                              ![c].received = Append(@, [msg |-> msg, at |-> t]),
                              ![c].pending = <<out.reply>>]
    /\ UNCHANGED <<page, impl, client, server, clientRes, serverRes, lastOp, hist>>

\* receive_json returns a command: the endpoint calls the detector and starts
\* sending the info message.
ConnCmd ==
    /\ \E c \in Connections :
          LET msg == Head(conns[c].inbox)
              out == EndpointCmd(conns[DetectorOf(c)].detector, msg)
          IN  /\ conns[c].status = "open"
              /\ conns[c].pending = <<>>
              /\ conns[c].inbox # <<>>
              /\ msg.type = "cmd"
              /\ conns' = [conns EXCEPT
                              ![DetectorOf(c)].detector = out.d,
                              ![c].inbox = Tail(@),
                              ![c].received = Append(@, [msg |-> msg, at |-> now]),
                              ![c].pending = <<out.reply>>]
    /\ UNCHANGED <<page, impl, client, server, now, clientRes, serverRes, lastOp, hist>>

\* await websocket.send_json(...) completes: the message is on the connection.
ConnSendJson ==
    /\ \E c \in Connections :
          /\ conns[c].pending # <<>>
          /\ conns' = [conns EXCEPT ![c].outbox = Append(@, conns[c].pending[1]),
                                    ![c].pending = <<>>]
    /\ UNCHANGED <<page, impl, client, server, now, clientRes, serverRes, lastOp, hist>>

NextConn ==
    \/ ConnAccept
    \/ ClientSendFrame
    \/ ClientSendCmd
    \/ ConnFrame
    \/ ConnCmd
    \/ ConnSendJson

SpecConn == InitConn /\ [][NextConn]_vars

\* The messages sent on connection c, the one being sent included.
Sent(c) == conns[c].outbox \o conns[c].pending

IsState(m) == m.type = "state"

\* The state messages sent on connection c, in order.
StatesSent(c) == SelectSeq(Sent(c), IsState)

RECURSIVE Replay(_)
\* The fields of a detector created by DrowsinessDetector() in the endpoint and
\* then called for the received messages rs, in their order, and for nothing
\* else: process_frame at the recorded time for a frame, reset_baseline for
\* begin_baseline, update_params for set_params.
Replay(rs) ==
    IF rs = <<>> THEN DrowsinessDetectorNew(7, ConnBaselineFrames)
    ELSE LET d == Replay(SubSeq(rs, 1, Len(rs) - 1))
             r == rs[Len(rs)]
         IN  IF r.msg.type = "frame" THEN ServerProcessFrame(d, r.msg.raw, r.at).d
             ELSE IF r.msg.cmd = "begin_baseline" THEN ServerResetBaseline(d)
             ELSE ServerUpdateParams(d, r.msg.params.closedSeconds, r.msg.params.refractory,
                                     r.msg.params.smoothingFactor)

\* The places of the frame messages among the received messages rs.
FramePlaces(rs) == {k \in 1..Len(rs) : rs[k].msg.type = "frame"}

\* The place of the i-th frame message among the received messages rs.
FramePlace(rs, i) ==
    CHOOSE k \in FramePlaces(rs) : Cardinality({j \in FramePlaces(rs) : j <= k}) = i

\* The state message that one process_frame call gives for the k-th received
\* message, a frame, on a detector that was called for the k - 1 messages
\* before it.
StateFor(rs, k) ==
    StateMessage(ServerProcessFrame(Replay(SubSeq(rs, 1, k - 1)), rs[k].msg.raw, rs[k].at).r)

CommandHandling ==
    [][ \A c \in Connections :
            Len(conns'[c].received) = Len(conns[c].received) + 1
                => LET m == conns'[c].received[Len(conns'[c].received)].msg
                       d == conns[c].detector
                   IN  /\ (m.type = "cmd" /\ m.cmd = "begin_baseline")
                            => /\ conns'[c].detector = ServerResetBaseline(d)
                               /\ conns'[c].pending = <<InfoMessage("baseline_started")>>
                       /\ (m.type = "cmd" /\ m.cmd = "set_params")
                            => /\ conns'[c].detector =
                                    ServerUpdateParams(d, m.params.closedSeconds,
                                                       m.params.refractory,
                                                       m.params.smoothingFactor)
                               /\ conns'[c].pending = <<InfoMessage("parameters_updated")>>
                       /\ m.type = "frame" => d = Replay(conns[c].received) ]_vars

\* A connection answered a frame, then begin_baseline, then a frame that
\* calibrated the detector anew, with other thresholds.
CommandHandlingWitness ==
    \E c \in Connections :
        LET rs  == conns[c].received
            out == conns[c].outbox
        IN  /\ Len(rs) = 3
            /\ Len(out) = 4
            /\ rs[1].msg.type = "frame"
            /\ rs[2].msg.cmd = "begin_baseline"
            /\ rs[3].msg.type = "frame"
            /\ out[2].payload.baseline_ready
            /\ out[3] = InfoMessage("baseline_started")
            /\ out[4].payload.baseline_ready
            /\ out[4].payload.th_low # out[2].payload.th_low

---------------------------------------------------------------------------
(* Calibration, alarms and configuration again *)

\* C24. At the frame on which a calibration completes, the state of the
\* tracker is OPEN and closedSince is not set, whatever came before.
CalibrationCompletesOpen ==
    [][ (DetectedFrame /\ ~Calibrated /\ Calibrated')
            => State' = "OPEN" /\ ~ClosedSinceSet' ]_vars

\* C25. Continuous closure: when a frame returns alarm=true, no detected frame
\* since the one that made the tracker CLOSED (the alarm frame included) had a
\* smoothed value above TH_HIGH.
ContinuousClosure ==
    [][ (DetectedFrame /\ ResAlarm') => ~hist'.aboveRun ]_vars

\* Settings objects / params dictionaries with a malformed field: a negative
\* duration (-0.5 s), a smoothing factor outside [0, 1] (1.5). Each has a
\* well-formed field too.
MalformedInputs ==
    { [closedSeconds |-> 12, refractory |-> -10, smoothingFactor |-> Undefined],
      [closedSeconds |-> Undefined, refractory |-> 26, smoothingFactor |-> 15] }

\* One call of EyeDetector.updateSettings with one of MalformedInputs.
ClientMisconfigure ==
    /\ impl = "client"
    /\ hist.events < MaxEvents
    /\ \E settings \in MalformedInputs :
          /\ client' = ClientUpdateSettings(client, settings)
          /\ hist' = [hist EXCEPT !.events = hist.events + 1,
                                  !.plain = FALSE,
                                  !.refrSame = hist.refrSame
                                               /\ client'.REFRACTORY = client.REFRACTORY]
    /\ lastOp' = "update"
    /\ UNCHANGED <<conns, page, impl, server, now, clientRes, serverRes>>

\* One {type: "cmd", cmd: "set_params"} message with one of MalformedInputs as
\* its params.
ServerMisconfigure ==
    /\ impl = "server"
    /\ hist.events < MaxEvents
    /\ \E params \in MalformedInputs :
          /\ server' = ServerUpdateParams(server, params.closedSeconds, params.refractory,
                                          params.smoothingFactor)
          /\ hist' = [hist EXCEPT !.events = hist.events + 1,
                                  !.plain = FALSE,
                                  !.refrSame = hist.refrSame
                                               /\ server'.REFRACTORY = server.REFRACTORY]
    /\ lastOp' = "update"
    /\ UNCHANGED <<conns, page, impl, client, now, clientRes, serverRes>>

\* Sessions of frames and of updates with a malformed field.
NextBad ==
    \/ ClientInitialize
    \/ ClientFrame(Samples, TimeSteps, MaxFrames, MaxEvents)
    \/ ClientMisconfigure
    \/ ServerFrame(Samples, TimeSteps, MaxFrames, MaxEvents)
    \/ ServerMisconfigure

SpecBad == Init /\ [][NextBad]_vars

\* A value that an update may give to a duration / to the smoothing factor.
WellFormedDuration(v) == v >= 0

WellFormedFactor(v) == v \in 0..10

\* C26. Malformed configuration fields are ignored one by one: an update
\* leaves a parameter at its previous value when the field given for it is
\* missing or malformed (a negative duration, a smoothing factor outside
\* [0, 1]) and sets it to the value given when that is well formed.
MalformedIgnored ==
    [][ UpdateCall
            => \E s \in MalformedInputs :
                    /\ ClosedSeconds' =
                          IF s.closedSeconds # Undefined /\ WellFormedDuration(s.closedSeconds)
                          THEN s.closedSeconds ELSE ClosedSeconds
                    /\ Refractory' =
                          IF s.refractory # Undefined /\ WellFormedDuration(s.refractory)
                          THEN s.refractory ELSE Refractory
                    /\ SmoothingFactor' =
                          IF s.smoothingFactor # Undefined /\ WellFormedFactor(s.smoothingFactor)
                          THEN s.smoothingFactor ELSE SmoothingFactor ]_vars

\* Raw signals of a broken landmark feed: the eyelid landmarks coincide (0),
\* or the eyes are open.
DegenerateSamples == {0, 300}

\* Time elapsed between two frames of a session of SpecDegenerate.
DegenerateSteps == {0, 24}

\* A new tracker; the client's smoothing has been switched off by
\* updateSettings({smoothingFactor: 0}), so that its smoothed signal is the
\* raw one and the median of a calibration can be exactly 0.
InitDegenerate ==
    /\ impl \in {"client", "server"}
    /\ client = ClientUpdateSettings(EyeDetectorNew,
                    [closedSeconds |-> Undefined, refractory |-> Undefined,
                     smoothingFactor |-> 0])
    /\ \E f \in SmoothingChoices, n \in 1..MaxBaseline :
          server = IF impl = "server" THEN DrowsinessDetectorNew(f, n)
                   ELSE DrowsinessDetectorNew(7, 60)
    /\ now = StartTime
    /\ clientRes = ClientNull
    /\ serverRes = ServerGetCurrentState(server, FALSE)
    /\ lastOp = "new"
    /\ hist = HistNew
    /\ conns = [c \in Connections |-> ConnectionNew]
    /\ page = DetectPageNew

\* Sessions long enough for a calibration of the client, with raw signals of 0.
NextDegenerate ==
    \/ ClientInitialize
    \/ ClientStart
    \/ ClientFrame(DegenerateSamples, DegenerateSteps, MaxCalFrames, MaxEvents)
    \/ ServerFrame(DegenerateSamples, DegenerateSteps, MaxCalFrames, MaxEvents)
    \/ ServerReset

SpecDegenerate == InitDegenerate /\ [][NextDegenerate]_vars

\* C27. Degenerate calibration: a calibration whose median is 0 completes
\* with baselineReady=true and TH_LOW = TH_HIGH = 0; from then on, until the
\* next recalibration, no frame moves the tracker from OPEN to CLOSED and none
\* returns alarm=true.
DegenerateCalibration ==
    [][ /\ (DetectedFrame /\ ~Calibrated /\ Calibrated' /\ MedianTwice(Buffer') = 0)
            => Ready' /\ ResReady' /\ Thresholds' = <<0, 0>>
        /\ (DetectedFrame /\ Calibrated /\ Thresholds = <<0, 0>>)
            => /\ State = "OPEN" => State' = "OPEN"
               /\ ~ResAlarm' ]_vars

\* Sessions of frames, resets and updates long enough for the calibration
\* buffer of either version to fill and for frames to come after that, the
\* clock standing still.
NextBuffer ==
    \/ ClientInitialize
    \/ ClientStart
    \/ ClientUpdate
    \/ ClientFrame(Samples, {0}, MaxCalFrames, MaxEvents)
    \/ ServerFrame(Samples, {0}, MaxCalFrames, MaxEvents)
    \/ ServerReset
    \/ ServerUpdate

SpecBuffer == Init /\ [][NextBuffer]_vars

\* C28. The calibration buffer is bounded: it never holds more than
\* calibrationSampleCount entries (20 in the client, baseline_frames in the
\* server).
BufferBounded == Len(Buffer) <= CalibrationSampleCount

\* The client's buffer is full and a frame has been processed since it filled.
BufferBoundedWitness ==
    /\ impl = "client"
    /\ lastOp = "frame"
    /\ Len(client.baseline) = ClientBaselineFrames
    /\ ~client.isCalibrating
    /\ hist.frames > ClientBaselineFrames

---------------------------------------------------------------------------
(* Two connections at once *)

\* C29. Session isolation: the detector of a connection is the one that its
\* own received messages, and nothing else, make of a new detector, so that
\* thresholds, state, timers and parameters depend on that connection alone;
\* and a step that receives, handles or sends a message of one connection
\* leaves the other connection as it is.
SessionIsolation ==
    [][ \A c \in Connections :
            /\ conns'[c].detector = Replay(conns'[c].received)
            /\ \A e \in Connections \ {c} :
                    conns'[e] # conns[e] => conns'[c] = conns[c] ]_vars

\* Both connections are open, one with a calibrated detector in state CLOSED,
\* the other having handled a set_params command that left it with another
\* configuration and no thresholds.
SessionIsolationWitness ==
    \E c, e \in Connections :
        /\ conns[c].detector.current_state = "CLOSED"
        /\ conns[c].detector.TH_LOW # None
        /\ Len(conns[e].received) = 1
        /\ conns[e].received[1].msg.cmd = "set_params"
        /\ conns[e].detector.TH_LOW = None
        /\ conns[e].detector.current_state = "OPEN"
        /\ <<conns[e].detector.CLOSED_SECONDS, conns[e].detector.REFRACTORY>>
                # <<conns[c].detector.CLOSED_SECONDS, conns[c].detector.REFRACTORY>>

---------------------------------------------------------------------------
(* The WebSocket Detect page: DETECT of src/unnamed/part_001 *)

\* WebSockets that the page creates in one session of SpecPage.
MaxSockets == 3

\* Frame messages that the page sends in one session of SpecPage.
MaxPageFrames == 2

\* connectToBackend: nothing when wsRef.current is an OPEN socket; otherwise a
\* new WebSocket is created and stored in wsRef.current.
ConnectToBackend(p) ==
    IF p.wsRef # 0 /\ p.sockets[p.wsRef] = "OPEN" THEN p
    ELSE [p EXCEPT !.sockets = Append(@, "CONNECTING"),
                   !.wsRef = Len(p.sockets) + 1]

\* The onopen handler of a socket: setInterval(sendFrame, 150), kept in
\* frameTimer.current.
OnOpen(p) ==
    [p EXCEPT !.timersMade = @ + 1,
              !.frameTimer = p.timersMade + 1,
              !.timers = @ \cup {p.timersMade + 1}]

\* stopCamera: the interval of frameTimer.current is cleared, the socket of
\* wsRef.current is closed and forgotten when it is OPEN, the camera stops.
StopCamera(p) ==
    LET open == p.wsRef # 0 /\ p.sockets[p.wsRef] = "OPEN"
    IN  [p EXCEPT !.timers = IF p.frameTimer # 0 THEN @ \ {p.frameTimer} ELSE @,
                  !.frameTimer = 0,
                  !.sockets = IF open THEN [@ EXCEPT ![p.wsRef] = "CLOSING"] ELSE @,
                  !.wsRef = IF open THEN 0 ELSE @,
                  !.isDetecting = FALSE]

\* The page as it mounts, nothing else running.
InitPage == InitConn

\* Start Camera is clicked and the camera is granted.
PageStartCamera ==
    /\ ~page.isDetecting
    /\ page' = [page EXCEPT !.isDetecting = TRUE]
    /\ UNCHANGED <<conns, impl, client, server, now, clientRes, serverRes, lastOp, hist>>

\* The video element fires canplay: onCanPlay = connectToBackend.
PageCanPlay ==
    /\ page.isDetecting
    /\ Len(page.sockets) < MaxSockets
    /\ page' = ConnectToBackend(page)
    /\ UNCHANGED <<conns, impl, client, server, now, clientRes, serverRes, lastOp, hist>>

\* A socket's connection is established: its onopen handler runs.
PageSocketOpen ==
    /\ \E i \in 1..Len(page.sockets) :
          /\ page.sockets[i] = "CONNECTING"
          /\ page' = OnOpen([page EXCEPT !.sockets[i] = "OPEN"])
    /\ UNCHANGED <<conns, impl, client, server, now, clientRes, serverRes, lastOp, hist>>

\* A socket's connection fails: the socket is CLOSED and its onerror handler
\* calls stopCamera.
PageSocketError ==
    /\ \E i \in 1..Len(page.sockets) :
          /\ page.sockets[i] \in {"CONNECTING", "OPEN"}
          /\ page' = StopCamera([page EXCEPT !.sockets[i] = "CLOSED"])
    /\ UNCHANGED <<conns, impl, client, server, now, clientRes, serverRes, lastOp, hist>>

\* A socket's connection ends (the server closed it, or the closing handshake
\* is over): its onclose handler writes a log line.
PageSocketClose ==
    /\ \E i \in 1..Len(page.sockets) :
          /\ page.sockets[i] \in {"OPEN", "CLOSING"}
          /\ page' = [page EXCEPT !.sockets[i] = "CLOSED"]
    /\ UNCHANGED <<conns, impl, client, server, now, clientRes, serverRes, lastOp, hist>>

\* Stop Detection is clicked.
PageStopCamera ==
    /\ page.isDetecting
    /\ page' = StopCamera(page)
    /\ UNCHANGED <<conns, impl, client, server, now, clientRes, serverRes, lastOp, hist>>

\* A running interval timer calls sendFrame, which sends a frame when the
\* video is there and wsRef.current is an OPEN socket.
PageSendFrame ==
    /\ page.timers # {}
    /\ page.isDetecting
    /\ page.wsRef # 0
    /\ page.sockets[page.wsRef] = "OPEN"
    /\ page.framesSent < MaxPageFrames
    /\ page' = [page EXCEPT !.framesSent = @ + 1]
    /\ UNCHANGED <<conns, impl, client, server, now, clientRes, serverRes, lastOp, hist>>

NextPage ==
    \/ PageStartCamera
    \/ PageCanPlay
    \/ PageSocketOpen
    \/ PageSocketError
    \/ PageSocketClose
    \/ PageStopCamera
    \/ PageSendFrame

SpecPage == InitPage /\ [][NextPage]_vars

\* The WebSockets of the page that are connecting or connected.
LiveSockets == {i \in 1..Len(page.sockets) : page.sockets[i] \in {"CONNECTING", "OPEN"}}

\* C30. At most one backend connection: the page never has more than one live
\* WebSocket nor more than one running frame-sending interval timer.
AtMostOneConnection ==
    /\ Cardinality(LiveSockets) <= 1
    /\ Cardinality(page.timers) <= 1

\* The WebSockets of the page that are connected.
OpenSockets == {i \in 1..Len(page.sockets) : page.sockets[i] = "OPEN"}

\* C31. Stop is final: while the page is stopped (stopCamera has run and the
\* camera has not been started again, or it was never started) no
\* frame-sending interval timer is running and no WebSocket is connected, also
\* when stopCamera ran while the socket was still CONNECTING.
StopIsFinal ==
    ~page.isDetecting => (page.timers = {} /\ OpenSockets = {})

---------------------------------------------------------------------------
(* Frames that keep coming: the alarm of a long closure *)

\* The time up to which the session of SpecLive is followed (18 s).
MaxLiveTime == 360

\* Detected frames in SpecLive: those of a calibration of the client and one
\* per 1.2 s of MaxLiveTime.
MaxLiveFrames == 36

\* Changes of the raw signal and frames without a face in SpecLive.
MaxLiveEvents == 2

\* The time between two frames in SpecLive, never 0: 0.05 s while the tracker
\* has no calibration, 1.2 s once it has one.
LiveSteps == IF Calibrated THEN {24} ELSE {1}

\* The session of SpecLive: the client as constructed, or the server with the
\* default smoothing and a baseline of one frame.
InitLive == Init /\ (impl = "server" => server = DrowsinessDetectorNew(7, ConnBaselineFrames))

\* EyeDetector.startCalibration, called once before the first frame.
LiveClientStart ==
    /\ impl = "client"
    /\ client.faceLandmarker
    /\ lastOp = "initialize"
    /\ client' = ClientStartCalibration(client)
    /\ lastOp' = "reset"
    /\ hist' = [hist EXCEPT !.sinceStart = 0]
    /\ UNCHANGED <<conns, page, impl, server, now, clientRes, serverRes>>

\* The history with the time t of a detected frame noted.
HistSeen(h, t) ==
    [h EXCEPT !.seen = t, !.gap = IF h.seen = None THEN 0 ELSE t - h.seen]

\* One call of EyeDetector.processFrame in SpecLive, after startCalibration.
LiveClientFrame ==
    /\ impl = "client"
    /\ client.faceLandmarker
    /\ lastOp # "initialize"
    /\ \E rawEye \in Samples \cup {NoFace}, dt \in LiveSteps :
          LET t   == now + dt
              out == ClientProcessFrame(client, rawEye, t)
              fed == rawEye # NoFace
          IN  /\ t <= MaxLiveTime
              /\ fed => WithinBounds(rawEye, MaxLiveFrames, MaxLiveEvents)
              /\ ~fed => hist.events < MaxLiveEvents /\ lastOp # "noface"
              /\ now' = t
              /\ client' = out.d
              /\ clientRes' = out.r
              /\ lastOp' = IF fed THEN "frame" ELSE "noface"
              /\ hist' = IF fed
                         THEN HistSeen(HistFrame(hist, rawEye, t,
                                        Band(out.d.smoothedEye, out.d.TH_LOW, out.d.TH_HIGH),
                                        client.eyeState, out.d.eyeState, out.r.alarm,
                                        client.FRAMES_REQUIRED,
                                        client.isCalibrating), t)
                         ELSE [hist EXCEPT !.events = @ + 1]
    /\ UNCHANGED <<conns, page, impl, server, serverRes>>

\* One call of DrowsinessDetector.process_frame in SpecLive.
LiveServerFrame ==
    /\ impl = "server"
    /\ \E raw_eye \in Samples \cup {NoFace}, dt \in LiveSteps :
          LET t   == now + dt
              out == ServerProcessFrame(server, raw_eye, t)
              fed == raw_eye # NoFace
          IN  /\ t <= MaxLiveTime
              /\ fed => WithinBounds(raw_eye, MaxLiveFrames, MaxLiveEvents)
              /\ ~fed => hist.events < MaxLiveEvents /\ lastOp # "noface"
              /\ now' = t
              /\ server' = out.d
              /\ serverRes' = out.r
              /\ lastOp' = IF fed THEN "frame" ELSE "noface"
              /\ hist' = IF fed
                         THEN HistSeen(HistFrame(hist, raw_eye, t,
                                        IF server.TH_LOW = None THEN "uncal"
                                        ELSE Band(out.d.smoothed_eye, out.d.TH_LOW, out.d.TH_HIGH),
                                        server.current_state, out.d.current_state, out.r.alarm,
                                        server.FRAMES_REQUIRED,
                                        server.TH_LOW = None), t)
                         ELSE [hist EXCEPT !.events = @ + 1]
    /\ UNCHANGED <<conns, page, impl, client, clientRes>>

NextLive ==
    \/ ClientInitialize
    \/ LiveClientStart
    \/ LiveClientFrame
    \/ LiveServerFrame

\* A frame arrives: the steps of NextLive that move the clock are those of
\* LiveClientFrame and LiveServerFrame, and one of them can be taken when the
\* tracker takes frames, the session is followed for one more step and a
\* detected frame or a frame without a face is within the bounds.
LiveFrameArrives ==
    /\ impl = "client" => client.faceLandmarker /\ lastOp # "initialize"
    /\ \/ hist.frames < MaxLiveFrames
       \/ hist.events < MaxLiveEvents /\ lastOp # "noface"
    /\ \E dt \in LiveSteps : now + dt <= MaxLiveTime /\ now' = now + dt

\* Frames keep coming, each later than the one before, for as long as the
\* session is followed: the camera loop calls the tracker again and again.
SpecLive == InitLive /\ [][NextLive]_vars /\ WF_now(LiveFrameArrives)

\* The time within which a run of frames below TH_LOW brings the next alarm at
\* the latest: FRAMES_REQUIRED - 1 frames until the tracker is CLOSED, then
\* closedSeconds (the refractory time, when that ends later), then the frame
\* that comes next; every frame at most 1.2 s after the one before.
LiveRoom == 4 * 24 + 24 + 24

\* The tracker is calibrated and its last frame was detected, with a smoothed
\* value below TH_LOW.
BelowRun == Calibrated /\ lastOp = "frame" /\ hist.band = "below"

\* The session is followed for LiveRoom more from time t and frame k on, with
\* a frame every 1.2 s.
RoomFrom(t, k) ==
    /\ t + LiveRoom <= MaxLiveTime
    /\ k + (LiveRoom \div 24) <= MaxLiveFrames

\* The session is followed for LiveRoom more.
RoomLeft == RoomFrom(now, hist.frames)

\* C32. Alarm liveness: from a detected frame of a calibrated tracker with
\* smoothed < TH_LOW that returns no alarm, a later frame returns alarm=true,
\* unless a frame comes that is not detected or not below TH_LOW (or the
\* calibration is started again); the frame after an alarm is such a frame,
\* so the alarm repeats within one CLOSED run.
AlarmLiveness ==
    (BelowRun /\ RoomLeft /\ ~ResAlarm) ~> (ResAlarm \/ ~BelowRun)

\* A second alarm has just been returned in one CLOSED run of frames below
\* TH_LOW; at the frame before, which returned none, the session was followed
\* for LiveRoom more.
AlarmLivenessWitness ==
    /\ BelowRun
    /\ ResAlarm
    /\ hist.alarms = 2
    /\ hist.below >= FramesRequired + 3
    /\ ~hist.aboveRun
    /\ RoomFrom(now - 24, hist.frames - 1)

---------------------------------------------------------------------------
(* Counting the frames of a calibration *)

\* C33. Calibration completes on exactly the N-th detected frame after its
\* start (client: startCalibration, N = 20; server: construction or
\* reset_baseline, N = BASELINE_FRAMES): a frame, detected or not, reports
\* baseline_ready exactly when N detected frames have come since the start;
\* frames without a face neither count nor restart the count.
CalibrationCount ==
    (lastOp \in {"frame", "noface"} /\ hist.sinceStart # None)
        => (ResReady <=> hist.sinceStart = CalibrationSampleCount)

\* The N-th detected frame of the first calibration has just reported
\* baseline_ready.
CalibrationCountWitness ==
    /\ lastOp = "frame"
    /\ hist.plain
    /\ hist.sinceStart = CalibrationSampleCount
    /\ hist.frames = CalibrationSampleCount
    /\ CalibrationSampleCount > 1
    /\ ResReady

---------------------------------------------------------------------------
(* Frames without a face during a closure *)

\* closed_for as the frame at time t reports it when the closure began at
\* since: the server reports 0 until FRAMES_REQUIRED frames are counted.
ClosedForFrom(since, t) ==
    IF impl = "server" /\ server'.consecutive_detections < server'.FRAMES_REQUIRED
    THEN 0 ELSE t - since

\* C34. Face loss does not stop the closed timer: a frame without a face that
\* comes while the state is CLOSED reports closed_for = 0 and alarm = false and
\* keeps closedSince; the first detected frame after it, when the state stays
\* CLOSED, keeps closedSince as well and reports closed_for from it, the gap
\* included.
FaceLossKeepsTimer ==
    [][ /\ (NoFaceFrame /\ State = "CLOSED")
            => /\ ResClosedFor' = 0
               /\ ~ResAlarm'
               /\ State' = "CLOSED"
               /\ ClosedSinceSet'
               /\ ClosedSince' = ClosedSince
        /\ (DetectedFrame /\ lastOp = "noface" /\ State = "CLOSED" /\ State' = "CLOSED")
            => /\ ClosedSince' = ClosedSince
               /\ ResClosedFor' = ClosedForFrom(ClosedSince, now') ]_vars

\* The first detected frame after a gap of at least closedSeconds without a
\* detected frame has just returned alarm=true, with the gap in closed_for.
FaceLossWitness ==
    /\ lastOp = "frame"
    /\ ResAlarm
    /\ hist.gap > 24
    /\ hist.gap >= ClosedSeconds
    /\ ResClosedFor = now - ClosedSince
    /\ ResClosedFor >= hist.gap

---------------------------------------------------------------------------
(* The server's transitions *)

\* C35. The server's transitions and alarm gating: a calibrated frame with
\* smoothed < TH_LOW makes an OPEN tracker CLOSED at once, a frame with
\* smoothed > TH_HIGH makes it OPEN at once, and alarm=true or a closed_for
\* other than 0 is returned only when at least FRAMES_REQUIRED frames below
\* TH_LOW were counted since the closure began.
ServerTransitions ==
    [][ (impl = "server" /\ DetectedFrame /\ server.TH_LOW # None)
            => /\ hist'.band = "below" => State' = "CLOSED"
               /\ hist'.band = "above" => State' = "OPEN"
               /\ hist'.band = "dead" => State' = State
               /\ (ResAlarm' \/ ResClosedFor' # 0)
                    => /\ State' = "CLOSED"
                       /\ hist'.counted >= server.FRAMES_REQUIRED ]_vars

\* The server has just returned alarm=true at the frame that is the
\* FRAMES_REQUIRED-th below TH_LOW of its closure, after a frame in the dead
\* band.
ServerTransitionsWitness ==
    /\ impl = "server"
    /\ lastOp = "frame"
    /\ ResAlarm
    /\ hist.counted = server.FRAMES_REQUIRED
    /\ hist.below < hist.counted

---------------------------------------------------------------------------
(* The range of the smoothed signal *)

\* The values that went into the moving average: the raw signals of the
\* detected frames and, in the client, the value smoothedEye starts with.
Fed == hist.raws \cup (IF impl = "client" THEN {EyeDetectorNew.smoothedEye} ELSE {})

\* The smoothed signal lies between the least and the greatest value of Fed
\* (the server has none before its first detected frame).
SmoothedWithin ==
    IF Fed = {} THEN Smoothed = None
    ELSE /\ \E lo \in Fed : lo <= Smoothed
         /\ \E hi \in Fed : Smoothed <= hi
         /\ Smoothed >= 0

\* C36. The smoothed signal stays within the range of its inputs: with
\* smoothingFactor in [0, 1] it lies between the least and the greatest raw
\* signal fed so far (and the client's initial 0.03), so it is never negative;
\* a frame without a face, a reset of the calibration and an update of the
\* parameters do not move it.
SmoothedInRange ==
    [][ SmoothingFactor' \in 0..10
            => /\ SmoothedWithin'
               /\ (NoFaceFrame \/ ResetCall \/ UpdateCall) => Smoothed' = Smoothed ]_vars

\* Two different raw signals were fed, the smoothed signal is strictly
\* between them, and the parameters have just been updated.
SmoothedInRangeWitness ==
    /\ lastOp = "update"
    /\ Cardinality(hist.raws) = 2
    /\ \E lo \in hist.raws : lo < Smoothed
    /\ \E hi \in hist.raws : Smoothed < hi

====
